---- MODULE Spec2Model ----
(***************************************************************************)
(* The SSO server of simple_sso/sso_server/server.py: the token store, the *)
(* three signed providers (request-token, verify, logout) and the          *)
(* browser-facing authorize view.                                          *)
(*                                                                         *)
(* A request is handled by a thread in steps: a step ends where the        *)
(* handler has read or written the tables or the provider attributes that  *)
(* other requests share.  Spec interleaves the steps of concurrent         *)
(* requests; SeqSpec handles one request at a time, at one instant.        *)
(***************************************************************************)
EXTENDS Naturals, FiniteSets, Sequences, TLC

\* ------------------------------------------------------------------ bounds
MaxTime == 3        \* the clock runs over 0..MaxTime
MaxTokens == 2      \* at most this many Tokens are ever created
MaxRequests == 4    \* at most this many requests are received when they may overlap

\* ------------------------------------------------------ the world's values
Threads == {"t1", "t2"}
ThreadIndex(t) == IF t = "t1" THEN 1 ELSE 2
Consumers == {"A", "B"}              \* public keys of the provisioned Consumers
UnknownKey == "X"                    \* a public key that resolves to no Consumer
Keys == Consumers \cup {UnknownKey}
Users == {"u1", "u2"}
SessionKeys == {"s1", "s2"}
None == "none"
Redirects == {"cb"}

\* the user logged in under each browser session
SessionUser(s) == IF s = "s1" THEN "u1" ELSE "u2"

\* Server.token_timeout / Server.token_verify_timeout, in clock units
token_timeout == 1
token_verify_timeout == 2

\* ----------------------------------------------------------------- tokens
NoToken == <<>>
RequestTokenOf(pk) == <<"rt", pk>>
AccessTokenOf(pk) == <<"at", pk>>

NoTok == [pk |-> 0, request_token |-> NoToken, access_token |-> NoToken,
          consumer |-> None, redirect_to |-> None, timestamp |-> 0,
          user |-> None, session |-> None]

NoReq == [kind |-> None, key |-> None, token |-> NoToken, redirect_to |-> None,
          session |-> None, user |-> None]

Response(status, msg, user, token, to) ==
    [status |-> status, msg |-> msg, user |-> user, token |-> token, to |-> to]

NoResp == Response(0, None, None, NoToken, None)

VARIABLES
    now,            \* timezone.now()
    tokens,         \* the Token table: pk -> row
    nextPk,         \* the next primary key of the Token table
    sessions,       \* the Session table: the keys of the rows that exist
    denied,         \* the (user, consumer) pairs Server.has_access refuses
    consumer,       \* provider -> its self.consumer attribute
    token,          \* provider -> its self.token attribute
    pc,             \* thread -> where it is in its handler
    req,            \* thread -> the request it handles
    tok,            \* thread -> self.token of its AuthorizeView instance
    resp,           \* thread -> the response of its handler
    received,       \* the number of requests received so far, when they may overlap
    threaded,       \* whether the server handles requests on several threads
    extra_data      \* whether the Consumers ask for extra_data in their verify requests

vars == <<now, tokens, nextPk, sessions, denied, consumer, token, pc, req, tok, resp,
          received, threaded, extra_data>>

Providers == {"request", "verify", "logout"}

store == <<tokens, nextPk, sessions>>
provs == <<consumer, token>>

\* ------------------------------------------------------------- the store
\* Token.objects.create(consumer=..., redirect_to=...)
TokenCreate(pk, c, redirect_to) ==
    [pk |-> pk, request_token |-> RequestTokenOf(pk), access_token |-> AccessTokenOf(pk),
     consumer |-> c, redirect_to |-> redirect_to, timestamp |-> now,
     user |-> None, session |-> None]

\* a lookup that takes either token of a row for its request_token
ByEitherToken(rt) ==
    {pk \in DOMAIN tokens : tokens[pk].request_token = rt \/ tokens[pk].access_token = rt}

\* Token.objects.get(request_token=...): the pks of the matching rows
ByRequestToken(rt) == {pk \in DOMAIN tokens : tokens[pk].request_token = rt}

\* Token.objects.get(access_token=...) without the consumer
ByAccessTokenOnly(at, c) == {pk \in DOMAIN tokens : tokens[pk].access_token = at}

\* Token.objects.get(access_token=..., consumer=...)
ByAccessToken(at, c) ==
    {pk \in DOMAIN tokens : tokens[pk].access_token = at /\ tokens[pk].consumer = c}

\* Model.delete(): removes the row of this primary key, if it is still there
Delete(tbl, pk) == [k \in DOMAIN tbl \ {pk} |-> tbl[k]]

\* Model.save(): UPDATE of every field of the row, INSERT when no row was updated
Save(tbl, row) == [k \in DOMAIN tbl \cup {row.pk} |-> IF k = row.pk THEN row ELSE tbl[k]]

\* the foreign key of Token.session: a row cannot name a session that is gone
Saveable(row) == row.session = None \/ row.session \in sessions

IntegrityError == Response(500, "IntegrityError", None, NoToken, None)

\* Session.delete(): the Tokens whose session is the deleted one go with it
CascadeSession(tbl, s) == [k \in {j \in DOMAIN tbl : tbl[j].session # s} |-> tbl[k]]

\* check_token_timeout with delta >= timeout: the boundary counts as expired
ExpiredAtBoundary(row, timeout) == now >= row.timestamp + timeout

\* check_token_timeout: delta > timeout
Expired(row, timeout) == now > row.timestamp + timeout

\* a has_access that grants everybody whatever the subclass says
has_access_any(user, c) == TRUE

\* Server.has_access: the default grants everybody (denied is empty), a
\* subclass may refuse some users at some Consumers
has_access(user, c) == <<user, c>> \notin denied

\* ------------------------------------------------------------------ init
Setup ==
    /\ now = 0
    /\ tokens = <<>>
    /\ nextPk = 1
    /\ sessions = SessionKeys
    /\ consumer = [p \in Providers |-> None]
    /\ token = [p \in Providers |-> NoTok]
    /\ pc = [t \in Threads |-> "idle"]
    /\ req = [t \in Threads |-> NoReq]
    /\ tok = [t \in Threads |-> NoTok]
    /\ resp = [t \in Threads |-> NoResp]
    /\ received = 0

\* a server whose worker handles requests on several threads
Init ==
    /\ Setup
    /\ denied = {}
    /\ threaded = TRUE
    /\ extra_data = FALSE

\* a server whose worker handles one request at a time
SeqInit ==
    /\ Setup
    /\ denied = {}
    /\ threaded = FALSE
    /\ extra_data = FALSE

\* a server of a subclass that overrides has_access, one request at a time
PolicyInit ==
    /\ Setup
    /\ denied = {<<"u2", "B">>}
    /\ threaded = FALSE
    /\ extra_data = FALSE

\* the server of the class Server as it is, one request at a time, with
\* Consumers that ask for extra_data
ExtraInit ==
    /\ Setup
    /\ denied = {}
    /\ threaded = FALSE
    /\ extra_data = TRUE

AllIdle == \A t \in Threads : pc[t] = "idle"

\* A request is taken by the first free thread; a server that is not threaded
\* takes it when the request before it has been answered.
Receive(t) ==
    /\ pc[t] = "idle"
    /\ \A u \in Threads : ThreadIndex(u) < ThreadIndex(t) => pc[u] # "idle"
    /\ IF threaded
         THEN received < MaxRequests /\ received' = received + 1
         ELSE AllIdle /\ UNCHANGED received
    /\ UNCHANGED <<threaded, extra_data>>

env == <<denied, received, threaded, extra_data>>

\* a handler ends: its response is kept until the thread returns
Done(t, r) ==
    /\ pc' = [pc EXCEPT ![t] = "done"]
    /\ resp' = [resp EXCEPT ![t] = r]

Goto(t, label) ==
    /\ pc' = [pc EXCEPT ![t] = label]
    /\ UNCHANGED resp

\* ------------------------------------------------------- request-token
\* BaseProvider.get_private_key, called by Provider.get_response
GetPrivateKey(t, p, first, kind) ==
    /\ Receive(t)
    /\ \E key \in Keys :
         /\ req' = [req EXCEPT ![t] = [NoReq EXCEPT !.kind = kind, !.key = key]]
         /\ IF key \in Consumers
              THEN /\ consumer' = [consumer EXCEPT ![p] = key]
                   /\ Goto(t, first)
              ELSE /\ UNCHANGED consumer
                   /\ Done(t, Response(400, "Invalid public key", None, NoToken, None))
    /\ UNCHANGED <<now, store, denied, token, tok>>

RequestTokenReceive(t) ==
    /\ nextPk + Cardinality({u \in Threads : pc[u] = "rt_provide"}) <= MaxTokens
    /\ GetPrivateKey(t, "request", "rt_provide", "request-token")

\* a provide that hands out again a Token the Consumer has not used yet
RequestTokenProvideAgain(t) ==
    /\ pc[t] = "rt_provide"
    /\ \E rd \in Redirects :
         LET row == TokenCreate(nextPk, consumer["request"], rd)
             unused == {pk \in DOMAIN tokens : /\ tokens[pk].consumer = consumer["request"]
                                               /\ tokens[pk].user = None}
         IN
         /\ req' = [req EXCEPT ![t].redirect_to = rd]
         /\ IF unused = {}
              THEN /\ tokens' = Save(tokens, row)
                   /\ nextPk' = nextPk + 1
                   /\ Done(t, Response(200, "request_token", None, row.request_token, None))
              ELSE /\ UNCHANGED <<tokens, nextPk>>
                   /\ \E pk \in unused :
                        Done(t, Response(200, "request_token", None,
                                         tokens[pk].request_token, None))
    /\ UNCHANGED <<now, sessions, env, provs, tok>>

\* RequestTokenProvider.provide
RequestTokenProvide(t) ==
    /\ pc[t] = "rt_provide"
    /\ \E rd \in Redirects :
         LET row == TokenCreate(nextPk, consumer["request"], rd) IN
         /\ req' = [req EXCEPT ![t].redirect_to = rd]
         /\ tokens' = Save(tokens, row)
         /\ nextPk' = nextPk + 1
         /\ Done(t, Response(200, "request_token", None, row.request_token, None))
    /\ UNCHANGED <<now, sessions, env, provs, tok>>

\* the provider a request is routed to (Server.get_urls)
ProviderOf(kind) ==
    CASE kind = "request-token" -> "request"
      [] kind = "verify" -> "verify"
      [] kind = "logout" -> "logout"
      [] OTHER -> None

\* the threads other than t that are inside provider p
Inside(p, t) == {u \in Threads \ {t} : pc[u] # "idle" /\ ProviderOf(req[u].kind) = p}

\* The response is sent, the thread is free for the next request.  The
\* attributes a provider instance keeps are written by every request before it
\* reads them, so once no request is inside the provider their values are dead:
\* the model forgets them.
Return(t) ==
    /\ pc[t] = "done"
    /\ pc' = [pc EXCEPT ![t] = "idle"]
    /\ req' = [req EXCEPT ![t] = NoReq]
    /\ tok' = [tok EXCEPT ![t] = NoTok]
    /\ resp' = [resp EXCEPT ![t] = NoResp]
    /\ LET p == ProviderOf(req[t].kind) IN
         IF p # None /\ Inside(p, t) = {}
           THEN /\ consumer' = [consumer EXCEPT ![p] = None]
                /\ token' = [token EXCEPT ![p] = NoTok]
           ELSE UNCHANGED provs
    /\ UNCHANGED <<now, store, env>>

\* the clock; a request is handled at one instant unless the server is threaded
Tick ==
    /\ now < MaxTime
    /\ threaded \/ AllIdle
    /\ now' = now + 1
    /\ UNCHANGED <<store, env, provs, pc, req, tok, resp>>

\* ------------------------------------------------------------ authorize
AuthorizeTokens ==
    {NoToken} \cup {RequestTokenOf(pk) : pk \in 1..MaxTokens}
              \cup {AccessTokenOf(pk) : pk \in 1..MaxTokens}

\* AuthorizeView.get, up to the lookup of the Token named by the token
\* parameter of the request
AuthorizeGet(t) ==
    /\ Receive(t)
    /\ \E rt \in AuthorizeTokens :
         /\ req' = [req EXCEPT ![t] = [NoReq EXCEPT !.kind = "authorize", !.token = rt]]
         /\ IF rt = NoToken
              THEN /\ Done(t, Response(400, "Token missing", None, NoToken, None))
                   /\ UNCHANGED tok
              ELSE IF ByRequestToken(rt) = {}
                THEN /\ Done(t, Response(403, "Token not found", None, NoToken, None))
                     /\ UNCHANGED tok
                ELSE /\ \E pk \in ByRequestToken(rt) : tok' = [tok EXCEPT ![t] = tokens[pk]]
                     /\ Goto(t, "a_check")
    /\ UNCHANGED <<now, store, denied, provs>>

\* AuthorizeView.check_token_timeout with the default timeout
AuthorizeCheckTimeout(t) ==
    /\ pc[t] = "a_check"
    /\ IF Expired(tok[t], token_timeout)
         THEN /\ tokens' = Delete(tokens, tok[t].pk)
              /\ Done(t, Response(403, "Token timed out", None, NoToken, None))
         ELSE /\ UNCHANGED tokens
              /\ Goto(t, "a_refresh")
    /\ UNCHANGED <<now, nextPk, sessions, env, provs, req, tok>>

\* Token.refresh(): timestamp = now, save()
Refresh(row) == [row EXCEPT !.timestamp = now]

\* a next URL that lost its token parameter
LoginRedirectBare(rt) == Response(302, "login", None, NoToken, "login")

\* AuthorizeView.handle_unauthenticated_user
LoginRedirect(rt) == Response(302, "login", None, rt, "login")

\* self.token.refresh() and the dispatch on request.user.is_authenticated.
\* request.user is resolved here, from the session cookie the browser sent (if
\* any): it is the user of that session when the session's row exists.
AuthorizeRefresh(t) ==
    /\ pc[t] = "a_refresh"
    /\ tok' = [tok EXCEPT ![t] = Refresh(tok[t])]
    /\ IF Saveable(tok[t])
         THEN /\ tokens' = Save(tokens, tok'[t])
              /\ \E s \in SessionKeys \cup {None} :
                   LET u == IF s \in sessions THEN SessionUser(s) ELSE None IN
                   /\ req' = [req EXCEPT ![t].session = IF u = None THEN None ELSE s,
                                          ![t].user = u]
                   /\ IF u # None
                        THEN IF has_access(u, tok[t].consumer)
                               THEN Goto(t, "a_success")
                               ELSE Done(t, Response(403, "Access denied", None,
                                                     NoToken, None))
                        ELSE Done(t, LoginRedirect(tok[t].request_token))
         ELSE /\ UNCHANGED <<tokens, req>>
              /\ Done(t, IntegrityError)
    /\ UNCHANGED <<now, nextPk, sessions, env, provs>>

\* a binding that assigns the user and leaves the session for later
BindUserOnly(row, user, session) == [row EXCEPT !.user = user]

\* the binding AuthorizeView.success writes
Bind(row, user, session) == [row EXCEPT !.user = user, !.session = session]

\* AuthorizeView.success
AuthorizeSuccess(t) ==
    /\ pc[t] = "a_success"
    /\ IF req[t].session \in sessions
         THEN /\ tok' = [tok EXCEPT ![t] = Bind(tok[t], req[t].user, req[t].session)]
              /\ tokens' = Save(tokens, tok'[t])
              /\ Done(t, Response(302, "access_token", None, tok[t].access_token,
                                  tok[t].redirect_to))
         ELSE \* Session.objects.get raises DoesNotExist
              /\ UNCHANGED <<tok, tokens>>
              /\ Done(t, Response(500, "Session.DoesNotExist", None, NoToken, None))
    /\ UNCHANGED <<now, nextPk, sessions, env, provs, req>>

\* --------------------------------------------------------------- verify
AccessTokens == {AccessTokenOf(pk) : pk \in 1..MaxTokens}

VerifyReceive(t) == GetPrivateKey(t, "verify", "v_lookup", "verify")

\* the lookup shared by VerificationProvider.provide and LogoutProvider.provide,
\* of the access_token the payload of the request carries
Lookup(t, p, next) ==
    /\ \E at \in AccessTokens :
         /\ req' = [req EXCEPT ![t].token = at]
         /\ IF ByAccessToken(at, consumer[p]) = {}
              THEN /\ Done(t, Response(403, "Token not found", None, NoToken, None))
                   /\ UNCHANGED token
              ELSE /\ \E pk \in ByAccessToken(at, consumer[p]) :
                         token' = [token EXCEPT ![p] = tokens[pk]]
                   /\ Goto(t, next)
    /\ UNCHANGED <<now, store, env, consumer, tok>>

\* check_token_timeout() called without the verify timeout
CheckDefaultTimeout(t, p, next) ==
    /\ IF Expired(token[p], token_timeout)
         THEN /\ tokens' = Delete(tokens, token[p].pk)
              /\ Done(t, Response(403, "Token timed out", None, NoToken, None))
         ELSE /\ UNCHANGED tokens
              /\ Goto(t, next)
    /\ UNCHANGED <<now, nextPk, sessions, env, provs, req, tok>>

\* check_token_timeout(self.server.token_verify_timeout) on the provider's token
CheckVerifyTimeout(t, p, next) ==
    /\ IF Expired(token[p], token_verify_timeout)
         THEN /\ tokens' = Delete(tokens, token[p].pk)
              /\ Done(t, Response(403, "Token timed out", None, NoToken, None))
         ELSE /\ UNCHANGED tokens
              /\ Goto(t, next)
    /\ UNCHANGED <<now, nextPk, sessions, env, provs, req, tok>>

VerifyLookup(t) ==
    /\ pc[t] = "v_lookup"
    /\ Lookup(t, "verify", "v_check")

VerifyCheckTimeout(t) ==
    /\ pc[t] = "v_check"
    /\ CheckVerifyTimeout(t, "verify", "v_user")

\* Server.get_user_extra_data: raise NotImplementedError().  No handler of the
\* provider catches it (get_response catches ThrowableHttpResponse only), so
\* the request ends in an unhandled fault.
get_user_extra_data == Response(500, "NotImplementedError", None, NoToken, None)

\* Server.get_user_data: the profile of the user, issued for the Consumer;
\* extra says whether the payload of the request carried extra_data
get_user_data(user, c, extra) ==
    IF extra THEN get_user_extra_data ELSE Response(200, "profile", user, NoToken, c)

\* the values data.get('extra_data') can have, as "is it truthy"
ExtraData == IF extra_data THEN BOOLEAN ELSE {FALSE}

\* provide without the test of self.token.user
VerifyUserUnchecked(t) ==
    /\ pc[t] = "v_user"
    /\ \E extra \in ExtraData :
         Done(t, get_user_data(token["verify"].user, consumer["verify"], extra))
    /\ UNCHANGED <<now, store, env, provs, req, tok>>

\* VerificationProvider.provide, from the test of self.token.user on
VerifyUser(t) ==
    /\ pc[t] = "v_user"
    /\ IF token["verify"].user = None
         THEN Done(t, Response(403, "Invalid token", None, NoToken, None))
         ELSE \E extra \in ExtraData :
                Done(t, get_user_data(token["verify"].user, consumer["verify"], extra))
    /\ UNCHANGED <<now, store, env, provs, req, tok>>

\* --------------------------------------------------------------- logout
LogoutReceive(t) == GetPrivateKey(t, "logout", "l_lookup", "logout")

LogoutLookup(t) ==
    /\ pc[t] = "l_lookup"
    /\ Lookup(t, "logout", "l_check")

\* an expiry that takes the session of the expired Token with it
LogoutCheckTimeoutSession(t) ==
    /\ pc[t] = "l_check"
    /\ IF Expired(token["logout"], token_verify_timeout)
         THEN /\ sessions' = sessions \ {token["logout"].session}
              /\ tokens' = CascadeSession(Delete(tokens, token["logout"].pk),
                                          token["logout"].session)
              /\ Done(t, Response(403, "Token timed out", None, NoToken, None))
         ELSE /\ UNCHANGED <<tokens, sessions>>
              /\ Goto(t, "l_session")
    /\ UNCHANGED <<now, nextPk, env, provs, req, tok>>

LogoutCheckTimeout(t) ==
    /\ pc[t] = "l_check"
    /\ CheckVerifyTimeout(t, "logout", "l_session")

\* provide answering ok without self.token.session.delete()
LogoutSessionKept(t) ==
    /\ pc[t] = "l_session"
    /\ IF token["logout"].session = None
         THEN Done(t, Response(403, "Invalid token", None, NoToken, None))
         ELSE Done(t, Response(200, "ok", None, NoToken, None))
    /\ UNCHANGED <<now, store, env, provs, req, tok>>

\* provide deleting the session and the one Token it was called with
LogoutSessionOneToken(t) ==
    /\ pc[t] = "l_session"
    /\ IF token["logout"].session = None
         THEN /\ Done(t, Response(403, "Invalid token", None, NoToken, None))
              /\ UNCHANGED <<tokens, sessions>>
         ELSE /\ sessions' = sessions \ {token["logout"].session}
              /\ tokens' = Delete(tokens, token["logout"].pk)
              /\ Done(t, Response(200, "ok", None, NoToken, None))
    /\ UNCHANGED <<now, nextPk, env, provs, req, tok>>

\* LogoutProvider.provide, from the test of self.token.session on
LogoutSession(t) ==
    /\ pc[t] = "l_session"
    /\ IF token["logout"].session = None
         THEN /\ Done(t, Response(403, "Invalid token", None, NoToken, None))
              /\ UNCHANGED <<tokens, sessions>>
         ELSE /\ sessions' = sessions \ {token["logout"].session}
              /\ tokens' = CascadeSession(tokens, token["logout"].session)
              /\ Done(t, Response(200, "ok", None, NoToken, None))
    /\ UNCHANGED <<now, nextPk, env, provs, req, tok>>

\* ------------------------------------------------------- specifications
Next ==
    \/ Tick
    \/ \E t \in Threads :
         \/ RequestTokenReceive(t)
         \/ RequestTokenProvide(t)
         \/ AuthorizeGet(t)
         \/ AuthorizeCheckTimeout(t)
         \/ AuthorizeRefresh(t)
         \/ AuthorizeSuccess(t)
         \/ VerifyReceive(t)
         \/ VerifyLookup(t)
         \/ VerifyCheckTimeout(t)
         \/ VerifyUser(t)
         \/ LogoutReceive(t)
         \/ LogoutLookup(t)
         \/ LogoutCheckTimeout(t)
         \/ LogoutSession(t)
         \/ Return(t)

\* requests are handled concurrently, their steps interleave
Spec == Init /\ [][Next]_vars

\* requests are handled one at a time, each at one instant
SeqSpec == SeqInit /\ [][Next]_vars

\* the same, for a server whose has_access refuses a user at a Consumer
PolicySpec == PolicyInit /\ [][Next]_vars

\* the same server with Consumers that ask for extra_data
ExtraSpec == ExtraInit /\ [][Next]_vars

TypeOK ==
    /\ now \in 0..MaxTime
    /\ nextPk \in 1..(MaxTokens + 1)
    /\ DOMAIN tokens \subseteq 1..MaxTokens
    /\ sessions \subseteq SessionKeys
    /\ received \in 0..MaxRequests

\* ------------------------------------------------------------- properties
Moves(t) == pc'[t] # pc[t]

\* the rows an access_token names, whoever owns them
Rows(at) == {pk \in DOMAIN tokens : tokens[pk].access_token = at}

Age(row) == now - row.timestamp

\* C1: a verify request never gets a user profile for a Token whose user is
\* unset: while the Token the request names is in the store with no user, the
\* answer is an error, and for the owning Consumer it is forbidden "Invalid
\* token" (an expired Token is not in the store any more when the request ends).
C1_VerifyNeedsBoundUser ==
    \A t \in Threads :
        (pc[t] = "done" /\ req[t].kind = "verify") =>
            \A pk \in Rows(req[t].token) :
                tokens[pk].user = None =>
                    /\ resp[t].status # 200
                    /\ resp[t].user = None
                    /\ tokens[pk].consumer = req[t].key => resp[t].msg = "Invalid token"

\* a verify request of the owner answered "Invalid token" for a Token that is
\* in the store, unbound and within the verify window
C1_Witness ==
    \E t \in Threads :
        /\ pc[t] = "done" /\ req[t].kind = "verify" /\ resp[t].msg = "Invalid token"
        /\ \E pk \in Rows(req[t].token) :
              /\ tokens[pk].user = None
              /\ tokens[pk].consumer = req[t].key
              /\ Age(tokens[pk]) <= token_verify_timeout

\* C2: once a successful authorization has set a Token's user and session, no
\* later step changes them while the Token exists.
C2_BoundOnce ==
    [][\A pk \in DOMAIN tokens :
          (tokens[pk].user # None /\ pk \in DOMAIN tokens') =>
              /\ tokens'[pk].user = tokens[pk].user
              /\ tokens'[pk].session = tokens[pk].session]_vars

\* C3: the authorize view's expiry check accepts the Token exactly when
\* now - timestamp <= token_timeout: an older Token is answered "Token timed
\* out" and removed by that request, a Token of at most that age passes the
\* check and the rest of the request leaves it in the store.
C3_AuthorizeWindow ==
    [][\A t \in Threads :
          (req[t].kind = "authorize" /\ Moves(t)) =>
              LET pk == tok[t].pk IN
              /\ pc[t] = "a_check" =>
                    /\ pk \in DOMAIN tokens
                    /\ IF Age(tokens[pk]) > token_timeout
                         THEN /\ pc'[t] = "done"
                              /\ resp'[t].status = 403
                              /\ resp'[t].msg = "Token timed out"
                              /\ pk \notin DOMAIN tokens'
                         ELSE /\ pc'[t] = "a_refresh"
                              /\ pk \in DOMAIN tokens'
              /\ pc[t] \in {"a_refresh", "a_success"} =>
                    /\ pk \in DOMAIN tokens'
                    /\ resp'[t].msg # "Token timed out"]_vars

\* a Token whose age is exactly token_timeout has passed the check
C3_Witness ==
    \E t \in Threads :
        /\ pc[t] = "a_refresh"
        /\ tok[t].pk \in DOMAIN tokens
        /\ Age(tokens[tok[t].pk]) = token_timeout

\* C4: for a bound Token, a verify request of the owning Consumer made while
\* now - timestamp <= token_verify_timeout returns the user's profile and
\* leaves the Token; one made later is answered "Token timed out" and the
\* Token is gone from the store when it ends.
C4_VerifyWindow ==
    [][\A t \in Threads :
          (req[t].kind = "verify" /\ pc[t] \in {"v_check", "v_user"} /\ Moves(t)) =>
              /\ ByAccessToken(req[t].token, req[t].key) # {}
              /\ \A pk \in ByAccessToken(req[t].token, req[t].key) :
                    tokens[pk].user # None =>
                        IF Age(tokens[pk]) <= token_verify_timeout
                          THEN /\ pk \in DOMAIN tokens'
                               /\ pc[t] = "v_check" => pc'[t] = "v_user"
                               /\ pc[t] = "v_user" =>
                                     /\ resp'[t].status = 200
                                     /\ resp'[t].msg = "profile"
                                     /\ resp'[t].user = tokens[pk].user
                          ELSE /\ pc'[t] = "done"
                               /\ resp'[t].status = 403
                               /\ resp'[t].msg = "Token timed out"
                               /\ pk \notin DOMAIN tokens']_vars

\* a verify request, after the window, answered "Token timed out": the Token
\* it named is not in the store
C4_Witness ==
    \E t \in Threads :
        /\ pc[t] = "done" /\ req[t].kind = "verify"
        /\ resp[t].msg = "Token timed out"
        /\ token["verify"].user # None
        /\ Rows(req[t].token) = {}

\* C5: after a logout request was answered ok, the Token it named is not in
\* the store, a Token that left the store never comes back, and a verify or
\* logout request naming a Token that is not in the store is answered
\* forbidden "Token not found".
C5_LogoutRevokes ==
    [][/\ \A t \in Threads :
            (pc[t] = "l_session" /\ Moves(t) /\ resp'[t].msg = "ok") =>
                /\ resp'[t].status = 200
                /\ \A pk \in DOMAIN tokens' : tokens'[pk].access_token # req[t].token
       /\ \A pk \in 1..MaxTokens :
            (pk < nextPk /\ pk \notin DOMAIN tokens) => pk \notin DOMAIN tokens'
       /\ \A t \in Threads :
            (pc[t] \in {"v_lookup", "l_lookup"} /\ Moves(t) /\ Rows(req'[t].token) = {}) =>
                /\ pc'[t] = "done"
                /\ resp'[t].status = 403
                /\ resp'[t].msg = "Token not found"]_vars

\* a verify request answered "Token not found" for a Token that was created
\* and, no time having passed, can only have left the store by a logout
C5_Witness ==
    \E t \in Threads :
        /\ pc[t] = "done" /\ req[t].kind = "verify" /\ req[t].key \in Consumers
        /\ resp[t].msg = "Token not found"
        /\ now = 0
        /\ sessions # SessionKeys
        /\ \E pk \in 1..MaxTokens :
              /\ req[t].token = AccessTokenOf(pk)
              /\ pk < nextPk
              /\ pk \notin DOMAIN tokens

\* C6: a verify or logout request authenticated as a Consumer that does not
\* own the Token its access_token names ends at the lookup, answered forbidden
\* "Token not found" with no profile, and changes neither the Token table nor
\* the Session table.
C6_OwnerOnly ==
    [][\A t \in Threads :
          (req[t].kind \in {"verify", "logout"} /\ req[t].key \in Consumers /\ Moves(t)) =>
              \A pk \in Rows(req'[t].token) :
                  tokens[pk].consumer # req[t].key =>
                      /\ pc[t] \in {"v_lookup", "l_lookup"}
                      /\ pc'[t] = "done"
                      /\ resp'[t].status = 403
                      /\ resp'[t].msg = "Token not found"
                      /\ resp'[t].user = None
                      /\ tokens' = tokens
                      /\ sessions' = sessions]_vars

\* a logout request of a Consumer for a bound Token of another Consumer, refused
C6_Witness ==
    \E t \in Threads :
        /\ pc[t] = "done" /\ req[t].kind = "logout" /\ req[t].key \in Consumers
        /\ resp[t].msg = "Token not found"
        /\ \E pk \in Rows(req[t].token) :
              /\ tokens[pk].consumer # req[t].key
              /\ tokens[pk].session \in sessions

\* C7: the expiry check and the refresh are one atomic step per Token: no
\* state is reached in which one authorize request has deleted the Token as
\* expired while another holds the same Token as live, its refresh still to come.
C7_OneOutcome ==
    \A t1, t2 \in Threads :
        ~ /\ t1 # t2
          /\ req[t1].kind = "authorize" /\ req[t2].kind = "authorize"
          /\ pc[t1] = "done" /\ resp[t1].msg = "Token timed out"
          /\ pc[t2] = "a_refresh"
          /\ tok[t1].pk = tok[t2].pk

\* C8: handshake re-entry.  For a Token in the store, unbound and within
\* token_timeout, an authorize request passes the expiry check; without an
\* authenticated user it is answered with the redirect to the login view whose
\* next URL carries the request_token of the request, and the Token stays,
\* unbound, its timestamp now; with an authenticated user who has access the
\* Token is refreshed, then bound to the user and the session of the request,
\* and the answer redirects to redirect_to with the access_token.
C8_Reentry ==
    [][\A t \in Threads :
          (req[t].kind = "authorize" /\ Moves(t)
             /\ pc[t] \in {"a_check", "a_refresh", "a_success"}) =>
              LET pk == tok[t].pk IN
              /\ pk \in DOMAIN tokens
              /\ (tokens[pk].user = None /\ Age(tokens[pk]) <= token_timeout) =>
                    LET row == tokens[pk]
                        touched == [tokens EXCEPT ![pk].timestamp = now]
                    IN
                    /\ pc[t] = "a_check" => (pc'[t] = "a_refresh" /\ tokens' = tokens)
                    /\ (pc[t] = "a_refresh" /\ req'[t].user = None) =>
                          /\ pc'[t] = "done"
                          /\ resp'[t].status = 302
                          /\ resp'[t].to = "login"
                          /\ resp'[t].token = req[t].token
                          /\ tokens' = touched
                    /\ (pc[t] = "a_refresh" /\ req'[t].user # None
                          /\ <<req'[t].user, row.consumer>> \notin denied) =>
                          /\ pc'[t] = "a_success"
                          /\ tokens' = touched
                    /\ pc[t] = "a_success" =>
                          /\ pc'[t] = "done"
                          /\ resp'[t].status = 302
                          /\ resp'[t].to = row.redirect_to
                          /\ resp'[t].token = row.access_token
                          /\ tokens' = [tokens EXCEPT ![pk].user = req[t].user,
                                                      ![pk].session = req[t].session]]_vars

\* the authenticated pass has bound the Token and redirected to redirect_to;
\* the Token was touched after its creation
C8_Witness ==
    \E t \in Threads :
        /\ pc[t] = "done" /\ req[t].kind = "authorize"
        /\ resp[t].msg = "access_token"
        /\ resp[t].to \in Redirects
        /\ tok[t].pk \in DOMAIN tokens
        /\ tokens[tok[t].pk].user = req[t].user
        /\ tokens[tok[t].pk].session = req[t].session
        /\ tokens[tok[t].pk].timestamp = now
        /\ now > token_timeout

\* C9: each handler acts on the Consumer of its own request: the Token a
\* request-token request created is owned by the Consumer whose key
\* authenticated that request, and a profile a verify request returns is
\* issued for that Consumer, for a Token that Consumer owns.
C9_OwnConsumer ==
    \A t \in Threads :
        pc[t] = "done" =>
            /\ (req[t].kind = "request-token" /\ resp[t].status = 200) =>
                   \A pk \in ByRequestToken(resp[t].token) :
                       tokens[pk].consumer = req[t].key
            /\ (req[t].kind = "verify" /\ resp[t].status = 200) =>
                   /\ resp[t].to = req[t].key
                   /\ \A pk \in Rows(req[t].token) : tokens[pk].consumer = req[t].key

\* C10: a bound Token whose session no logout deletes stays in the store,
\* bound, while now - timestamp <= token_verify_timeout, so that a verify
\* request of its owner made in that window succeeds: no step, in particular
\* none of an authorize request with its request_token, removes or unbinds it.
C10_VerifiableInWindow ==
    [][\A pk \in DOMAIN tokens :
          (tokens[pk].user # None /\ Age(tokens[pk]) <= token_verify_timeout
             /\ sessions' = sessions) =>
              /\ pk \in DOMAIN tokens'
              /\ tokens'[pk].user # None]_vars

\* C11: every touch that passes the expiry check refreshes the timestamp, the
\* touches of the verify and logout providers included: when a verify or
\* logout request has passed the check against token_verify_timeout and ends,
\* the Token it named, if it is still in the store, has timestamp = now.
C11_TouchRefreshes ==
    [][\A t \in Threads :
          (pc[t] \in {"v_user", "l_session"} /\ Moves(t)) =>
              \A pk \in ByAccessToken(req[t].token, req[t].key) :
                  pk \in DOMAIN tokens' => tokens'[pk].timestamp = now]_vars

\* C12: a logout answered ok removes every Token bound to the session it
\* deleted, not only the Token it was called with: after the answer the session
\* of the named Token is gone and no Token in the store, of any Consumer, is
\* bound to it.
C12_LogoutCascades ==
    [][\A t \in Threads :
          (pc[t] = "l_session" /\ Moves(t) /\ resp'[t].msg = "ok") =>
              /\ ByAccessToken(req[t].token, req[t].key) # {}
              /\ \A pk \in ByAccessToken(req[t].token, req[t].key) :
                    LET S == tokens[pk].session IN
                    /\ S # None
                    /\ S \notin sessions'
                    /\ \A k \in DOMAIN tokens' : tokens'[k].session # S]_vars

\* a logout answered ok after which both Tokens are gone although only one
\* session was deleted and no time has passed: both were bound to that session
C12_Witness ==
    \E t \in Threads :
        /\ pc[t] = "done" /\ req[t].kind = "logout" /\ resp[t].msg = "ok"
        /\ now = 0
        /\ nextPk = MaxTokens + 1
        /\ DOMAIN tokens = {}
        /\ Cardinality(sessions) = Cardinality(SessionKeys) - 1

\* C13: in every reachable state each Token of the store has user and session
\* both unset or both set: they are unset from creation on and assigned
\* together by one save of a successful authorization, so that a request that
\* was denied or failed part-way leaves no Token with exactly one of them.
C13_BoundTogether ==
    \A pk \in DOMAIN tokens :
        (tokens[pk].user = None) <=> (tokens[pk].session = None)

\* the store holds a bound Token next to one that an authorize request, denied
\* by has_access, has touched and left unbound
C13_Witness ==
    \E pk, k \in DOMAIN tokens :
        /\ tokens[pk].user # None /\ tokens[pk].session # None
        /\ tokens[k].user = None /\ tokens[k].session = None
        /\ \E t \in Threads :
              /\ pc[t] = "done" /\ req[t].kind = "authorize"
              /\ tok[t].pk = k
              /\ resp[t].msg = "Access denied"

\* C14: the answer of a verify request is settled by these checks, in this
\* order: no Token of the Consumer with this access_token: "Token not found";
\* a Token older than token_verify_timeout: "Token timed out", and the Token
\* is deleted, bound or not; a Token in the window without a user: "Invalid
\* token", and the Token stays; otherwise the profile of the Token's user.
\* Each error is a forbidden response: the request never ends in a fault.
C14_VerifyOrder ==
    [][\A t \in Threads :
          (req[t].kind = "verify" /\ pc[t] \in {"v_lookup", "v_check", "v_user"}
             /\ Moves(t)) =>
              LET found == ByAccessToken(req'[t].token, req[t].key) IN
              /\ pc[t] = "v_lookup" =>
                    /\ tokens' = tokens
                    /\ IF found = {}
                         THEN /\ pc'[t] = "done"
                              /\ resp'[t].status = 403
                              /\ resp'[t].msg = "Token not found"
                         ELSE pc'[t] = "v_check"
              /\ pc[t] = "v_check" =>
                    /\ found # {}
                    /\ \A pk \in found :
                          IF Age(tokens[pk]) > token_verify_timeout
                            THEN /\ pc'[t] = "done"
                                 /\ resp'[t].status = 403
                                 /\ resp'[t].msg = "Token timed out"
                                 /\ pk \notin DOMAIN tokens'
                            ELSE /\ pc'[t] = "v_user"
                                 /\ tokens' = tokens
              /\ pc[t] = "v_user" =>
                    /\ found # {}
                    /\ pc'[t] = "done"
                    /\ tokens' = tokens
                    /\ \A pk \in found :
                          IF tokens[pk].user = None
                            THEN /\ resp'[t].status = 403
                                 /\ resp'[t].msg = "Invalid token"
                            ELSE /\ resp'[t].status = 200
                                 /\ resp'[t].msg = "profile"
                                 /\ resp'[t].user = tokens[pk].user]_vars

\* C15: a request-token request of a known Consumer adds exactly one Token to
\* the store: a new row owned by that Consumer, with the redirect_to of the
\* request, timestamp = now and no user or session, whose request_token is
\* the answer; its tokens are those of no row that exists and no existing row
\* changes.  A request whose public key names no Consumer creates no Token.
C15_AlwaysNewToken ==
    [][\A t \in Threads :
          /\ (pc[t] = "rt_provide" /\ Moves(t)) =>
                /\ pc'[t] = "done"
                /\ resp'[t].status = 200
                /\ \E k \in DOMAIN tokens' \ DOMAIN tokens :
                      /\ DOMAIN tokens' = DOMAIN tokens \cup {k}
                      /\ \A pk \in DOMAIN tokens :
                            /\ tokens'[pk] = tokens[pk]
                            /\ tokens'[k].request_token # tokens[pk].request_token
                            /\ tokens'[k].access_token # tokens[pk].access_token
                      /\ tokens'[k].consumer = req[t].key
                      /\ tokens'[k].redirect_to = req'[t].redirect_to
                      /\ tokens'[k].redirect_to \in Redirects
                      /\ tokens'[k].timestamp = now
                      /\ tokens'[k].user = None
                      /\ tokens'[k].session = None
                      /\ resp'[t].token = tokens'[k].request_token
          /\ (pc[t] = "idle" /\ Moves(t) /\ req'[t].kind = "request-token") =>
                /\ tokens' = tokens
                /\ nextPk' = nextPk
                /\ IF req'[t].key \in Consumers
                     THEN pc'[t] = "rt_provide"
                     ELSE /\ pc'[t] = "done"
                          /\ resp'[t].status = 400]_vars

\* a second request-token request of the same Consumer, made later, has added
\* a Token next to the one the Consumer had not used
C15_Witness ==
    \E t \in Threads :
        /\ pc[t] = "done" /\ req[t].kind = "request-token" /\ resp[t].status = 200
        /\ \E pk, k \in DOMAIN tokens :
              /\ pk # k
              /\ resp[t].token = tokens[k].request_token
              /\ tokens[k].consumer = req[t].key
              /\ tokens[k].timestamp = now
              /\ tokens[pk].consumer = req[t].key
              /\ tokens[pk].user = None
              /\ tokens[pk].timestamp < now

\* C16: expiry consumes the Token for good: once a request has deleted a Token
\* as expired the Token is never in the store again, also when another request
\* that read it before the deletion goes on to refresh or bind it.  So no
\* state is reached in which a request has answered "Token timed out" for a
\* Token that is in the store.
C16_ExpiryIsFinal ==
    \A t \in Threads :
        (pc[t] = "done" /\ resp[t].msg = "Token timed out") =>
            /\ req[t].kind = "authorize" => ByRequestToken(req[t].token) = {}
            /\ req[t].kind \in {"verify", "logout"} => Rows(req[t].token) = {}

\* C17: an authorize request of an authenticated user to whom has_access
\* refuses the Token's Consumer is answered forbidden "Access denied", with no
\* redirect and no access_token, and leaves the Token in the store with only
\* its timestamp refreshed, so an unbound Token stays unbound; a user
\* has_access does not refuse is never answered "Access denied".
C17_AccessDenied ==
    [][\A t \in Threads :
          (pc[t] = "a_refresh" /\ Moves(t) /\ req'[t].user # None) =>
              LET pk == tok[t].pk IN
              /\ pk \in DOMAIN tokens
              /\ IF <<req'[t].user, tokens[pk].consumer>> \in denied
                   THEN /\ pc'[t] = "done"
                        /\ resp'[t].status = 403
                        /\ resp'[t].msg = "Access denied"
                        /\ resp'[t].token = NoToken
                        /\ resp'[t].to = None
                        /\ tokens' = [tokens EXCEPT ![pk].timestamp = now]
                        /\ tokens[pk].user = None =>
                              /\ tokens'[pk].user = None
                              /\ tokens'[pk].session = None
                   ELSE /\ pc'[t] = "a_success"
                        /\ resp'[t].msg # "Access denied"]_vars

\* a denied request has left the Token unbound, its timestamp refreshed
C17_Witness ==
    \E t \in Threads :
        /\ pc[t] = "done" /\ req[t].kind = "authorize"
        /\ resp[t].msg = "Access denied"
        /\ <<req[t].user, tok[t].consumer>> \in denied
        /\ tok[t].pk \in DOMAIN tokens
        /\ tokens[tok[t].pk].user = None
        /\ tokens[tok[t].pk].session = None
        /\ tokens[tok[t].pk].timestamp = now
        /\ now > 0

\* C18: an authorize request without a token parameter, or with an empty
\* one, is answered bad request; one whose token is the request_token of no
\* Token, an access_token in particular, is answered forbidden "Token not
\* found"; both leave the whole store as it was.  Any other authorize request
\* goes on with the Token whose request_token it named.
C18_AuthorizeLookup ==
    [][\A t \in Threads :
          (pc[t] = "idle" /\ Moves(t) /\ req'[t].kind = "authorize") =>
              LET rt == req'[t].token
                  named == {pk \in DOMAIN tokens : tokens[pk].request_token = rt}
              IN
              /\ store' = store
              /\ rt = NoToken =>
                    /\ pc'[t] = "done"
                    /\ resp'[t].status = 400
              /\ (rt # NoToken /\ named = {}) =>
                    /\ pc'[t] = "done"
                    /\ resp'[t].status = 403
                    /\ resp'[t].msg = "Token not found"
              /\ rt \in AccessTokens => named = {}
              /\ named # {} =>
                    /\ pc'[t] = "a_check"
                    /\ tok'[t].pk \in named]_vars

\* an authorize request that presented the access_token of a bound Token of
\* the store has been answered "Token not found"
C18_Witness ==
    \E t \in Threads :
        /\ pc[t] = "done" /\ req[t].kind = "authorize"
        /\ resp[t].status = 403 /\ resp[t].msg = "Token not found"
        /\ \E pk \in DOMAIN tokens :
              /\ tokens[pk].access_token = req[t].token
              /\ tokens[pk].user # None

\* C19: a session is deleted only by a logout request whose access_token
\* names a Token of the requesting Consumer that is within
\* token_verify_timeout and bound, and it is the session of that Token.  A
\* logout for an unbound Token is answered forbidden "Invalid token" and
\* deletes nothing; a logout for an expired bound Token is answered "Token
\* timed out" and deletes that Token alone: its session and the other Tokens
\* of that session stay.
C19_LogoutGuards ==
    [][/\ sessions' # sessions =>
            \E t \in Threads :
                /\ req[t].kind = "logout" /\ pc[t] = "l_session" /\ Moves(t)
                /\ resp'[t].msg = "ok"
                /\ \E pk \in ByAccessToken(req[t].token, req[t].key) :
                      /\ Age(tokens[pk]) <= token_verify_timeout
                      /\ tokens[pk].session # None
                      /\ sessions' = sessions \ {tokens[pk].session}
       /\ \A t \in Threads :
            (req[t].kind = "logout" /\ pc[t] \in {"l_check", "l_session"} /\ Moves(t)) =>
                /\ ByAccessToken(req[t].token, req[t].key) # {}
                /\ \A pk \in ByAccessToken(req[t].token, req[t].key) :
                      /\ (pc[t] = "l_check" /\ Age(tokens[pk]) > token_verify_timeout) =>
                            /\ pc'[t] = "done"
                            /\ resp'[t].status = 403
                            /\ resp'[t].msg = "Token timed out"
                            /\ tokens' = Delete(tokens, pk)
                            /\ sessions' = sessions
                      /\ (pc[t] = "l_check" /\ Age(tokens[pk]) <= token_verify_timeout) =>
                            /\ pc'[t] = "l_session"
                            /\ tokens' = tokens
                            /\ sessions' = sessions
                      /\ (pc[t] = "l_session" /\ tokens[pk].session = None) =>
                            /\ pc'[t] = "done"
                            /\ resp'[t].status = 403
                            /\ resp'[t].msg = "Invalid token"
                            /\ tokens' = tokens
                            /\ sessions' = sessions]_vars

\* a logout for an expired bound Token was answered "Token timed out": the
\* Token is gone, its session is there and so is another Token of that session
C19_Witness ==
    \E t \in Threads :
        /\ pc[t] = "done" /\ req[t].kind = "logout"
        /\ resp[t].msg = "Token timed out"
        /\ Rows(req[t].token) = {}
        /\ token["logout"].session \in sessions
        /\ \E k \in DOMAIN tokens : tokens[k].session = token["logout"].session

====
